---- MODULE Spec2Model ----
(***************************************************************************)
(* Monte Carlo estimate of the probability that four points drawn in a     *)
(* triangle are in convex position (src/src/main.py; the older script      *)
(* "src/Project 1/monte_carlo_simulation.py" has the same structure).      *)
(*                                                                         *)
(* Numbers.  Coordinates are kept as exact integers.  A pool point is      *)
(* stored in units of 1/(2*Resolution^2) along x and sqrt(0.75)/           *)
(* Resolution^2 along y; both factors are positive, so the sign of every   *)
(* determinant is the sign the program computes.  A value of               *)
(* random.random() is a numerator over Resolution.  A running estimate     *)
(* quad_cnt / total_cnt is kept as the reduced fraction <<n, d>>: two      *)
(* quotients of small integers are the same float exactly when they are    *)
(* the same reduced fraction.                                              *)
(*                                                                         *)
(* Randomness.  The random module owns one hidden, process-wide generator, *)
(* seeded from operating-system entropy when the module is imported        *)
(* (main.py line 4); every call reads and advances it.  The variable rng   *)
(* is that hidden state: any value at start, advanced by each call.        *)
(***************************************************************************)
EXTENDS Integers, Sequences, FiniteSets

\* ---- bounds of the model ----
MaxNum == 5
NegNum == 1
Modulus == 128
Resolution == 4
GridMax == 2

VARIABLES
    num,            \* args.num
    seed,           \* args.seed (a store_true flag)
    rng,            \* hidden state of the random module's generator
    pc,             \* "pool" | "loop" | "returned" | "raised"
    points,         \* the pool
    point_a, point_b, point_c, point_d,
    quad_cnt, total_cnt,
    results,
    exception,      \* "none" | "ValueError"
    sampler_calls,  \* history: triangle passed to each sample_triangle_points call
    draw_classes,   \* history: classification of each iteration's draw
    run,            \* 1 for the first invocation of the program, 2 for the second
    first_results,  \* history: what the first invocation returned
    g_pc,           \* geometry harness: "off" | "input" | "oriented" | "classified"
    g_pts,          \* geometry harness: the four argument points
    g_turn,         \* geometry harness: orientation of (A,B,C), (B,A,C), (A,C,B)
    g_cls           \* geometry harness: classify_points(A,B,C,D)

vars == <<num, seed, rng, pc, points, point_a, point_b, point_c, point_d,
          quad_cnt, total_cnt, results, exception, sampler_calls,
          draw_classes, run, first_results, g_pc, g_pts, g_turn, g_cls>>

runVars == <<num, seed, rng, pc, points, point_a, point_b, point_c, point_d,
             quad_cnt, total_cnt, results, exception, sampler_calls,
             draw_classes, run, first_results>>

geomVars == <<g_pc, g_pts, g_turn, g_cls>>

Unbound == << >>

\* ---- arithmetic helpers ----
RECURSIVE Gcd(_, _)
Gcd(a, b) == IF b = 0 THEN a ELSE Gcd(b, a % b)

\* math.sqrt at the model's resolution: the root rounded down to a numerator
\* over Resolution, for an argument r / Resolution.
Sqrt(r) == CHOOSE k \in 0..Resolution : k * k <= r * Resolution
                                        /\ (k + 1) * (k + 1) > r * Resolution

\* variant: floor division (quad_cnt // total_cnt)
DivideFloor(q, t) == <<q \div t, 1>>

\* quad_cnt / total_cnt (true division of two ints, total_cnt > 0)
Divide(q, t) == <<q \div Gcd(q, t), t \div Gcd(q, t)>>

\* ---- the hidden generator of the random module ----
Advance(s) == (5 * s + 3) % Modulus

\* random.random(): the float in [0,1) read off state s, as a numerator over Resolution
RandomValue(s) == (s * Resolution) \div Modulus

\* random._randbelow(m): an int in 0..m-1 read off state s
RandBelow(s, m) == (s * m) \div Modulus

\* ---- the fixed triangle ----
BaseA == <<0, 0>>
BaseB == <<Resolution * Resolution, Resolution * Resolution>>
BaseC == <<2 * Resolution * Resolution, 0>>

\* ---- main.py, pure functions ----
sample_triangle_points(pa, pb, pc_, r1, r2) ==
    LET s1 == Sqrt(r1)
        R  == Resolution
        x  == (pa[1] * (R - s1) * R + pb[1] * (R - r2) * s1 + pc_[1] * r2 * s1) \div (R * R)
        y  == (pa[2] * (R - s1) * R + pb[2] * (R - r2) * s1 + pc_[2] * r2 * s1) \div (R * R)
    IN  <<x, y>>

sign(n) == IF n > 0 THEN 1 ELSE IF n < 0 THEN -1 ELSE 0

\* variant: the last factor is taken relative to pa instead of pc_
orientationWrongPivot(pa, pb, pc_) ==
    LET disc == (pa[1] - pc_[1]) * (pb[2] - pc_[2]) - (pa[2] - pc_[2]) * (pb[1] - pa[1])
    IN  sign(disc)

orientation(pa, pb, pc_) ==
    LET disc == (pa[1] - pc_[1]) * (pb[2] - pc_[2]) - (pa[2] - pc_[2]) * (pb[1] - pc_[1])
    IN  sign(disc)

\* variant: the last triple is taken in the order (pb, pd, pc_)
classify_pointsSwapped(pa, pb, pc_, pd) ==
    orientation(pa, pb, pc_) * orientation(pa, pb, pd)
      * orientation(pa, pc_, pd) * orientation(pb, pd, pc_)

\* variant: the triple (pa, pc_, pd) is used twice and (pb, pc_, pd) never
classify_pointsRepeated(pa, pb, pc_, pd) ==
    orientation(pa, pb, pc_) * orientation(pa, pb, pd)
      * orientation(pa, pc_, pd) * orientation(pa, pc_, pd)

classify_points(pa, pb, pc_, pd) ==
    orientation(pa, pb, pc_) * orientation(pa, pb, pd)
      * orientation(pa, pc_, pd) * orientation(pb, pc_, pd)

\* random.sample(population, k), as CPython does it for a small population:
\* k times, pick index j = _randbelow(n - i) of the working copy, take it, and
\* move the last live element into its place.
\* variant: drawing with replacement (random.choices), the picked element stays
RECURSIVE SampleWithReplacement(_, _, _, _)
SampleWithReplacement(pool, n, k, s) ==
    IF k = 0 THEN << >>
    ELSE LET s1 == Advance(s)
             j  == RandBelow(s1, n) + 1
         IN  <<pool[j]>> \o SampleWithReplacement(pool, n, k - 1, s1)

RECURSIVE Sample(_, _, _, _)
Sample(pool, n, k, s) ==
    IF k = 0 THEN << >>
    ELSE LET s1 == Advance(s)
             j  == RandBelow(s1, n) + 1
         IN  <<pool[j]>> \o Sample([pool EXCEPT ![j] = pool[n]], n - 1, k - 1, s1)

RECURSIVE AdvanceBy(_, _)
AdvanceBy(s, k) == IF k = 0 THEN s ELSE AdvanceBy(Advance(s), k - 1)

\* ---- simulate(args) ----
\* variant: range(args.num - 1)
PoolIncompleteShort(pts, n) == Len(pts) < n - 1

\* range(args.num) of the comprehension at line 139 still has an element to give
PoolIncomplete(pts, n) == Len(pts) < n

\* variant: total_cnt <= args.num
LoopConditionInclusive(t, n) == t <= n

\* the while condition at line 144
LoopCondition(t, n) == t < n

\* variant: every non-degenerate draw is counted
NextQuadCntNonZero(cls, qc) == IF cls # 0 THEN qc + 1 ELSE qc

\* lines 154-155: the counter after a draw classified cls
NextQuadCnt(cls, qc) == IF cls = 1 THEN qc + 1 ELSE qc

Init ==
    /\ num \in (0 - NegNum)..MaxNum
    /\ seed \in BOOLEAN
    /\ rng \in 0..(Modulus - 1)
    /\ pc = "pool"
    /\ points = << >>
    /\ point_a = BaseA
    /\ point_b = BaseB
    /\ point_c = BaseC
    /\ point_d = Unbound
    /\ quad_cnt = 0
    /\ total_cnt = 0
    /\ results = << >>
    /\ exception = "none"
    /\ sampler_calls = << >>
    /\ draw_classes = << >>
    /\ run = 1
    /\ first_results = Unbound
    /\ g_pc = "off"
    /\ g_pts = << >>
    /\ g_turn = Unbound
    /\ g_cls = 0

\* one element of the list comprehension at line 139
SamplePoint ==
    /\ pc = "pool"
    /\ PoolIncomplete(points, num)
    /\ LET s1 == Advance(rng)
           s2 == Advance(s1)
       IN  /\ points' = Append(points,
                   sample_triangle_points(point_a, point_b, point_c,
                                          RandomValue(s1), RandomValue(s2)))
           /\ rng' = s2
    /\ sampler_calls' = Append(sampler_calls, <<point_a, point_b, point_c>>)
    /\ UNCHANGED <<num, seed, pc, point_a, point_b, point_c, point_d, quad_cnt,
                   total_cnt, results, exception, draw_classes, run, first_results>>
    /\ UNCHANGED geomVars

\* the comprehension is exhausted; lines 141-142
StartLoop ==
    /\ pc = "pool"
    /\ ~PoolIncomplete(points, num)
    /\ quad_cnt' = 0
    /\ total_cnt' = 0
    /\ pc' = "loop"
    /\ UNCHANGED <<num, seed, rng, points, point_a, point_b, point_c, point_d,
                   results, exception, sampler_calls, draw_classes, run, first_results>>
    /\ UNCHANGED geomVars

\* one pass through the body of the while loop, lines 144-158
Iterate ==
    /\ pc = "loop"
    /\ LoopCondition(total_cnt, num)
    /\ 4 <= Len(points)
    /\ LET quad_points == Sample(points, Len(points), 4, rng)
           cls == classify_points(quad_points[1], quad_points[2],
                                  quad_points[3], quad_points[4])
           qc  == NextQuadCnt(cls, quad_cnt)
       IN  /\ point_a' = quad_points[1]
           /\ point_b' = quad_points[2]
           /\ point_c' = quad_points[3]
           /\ point_d' = quad_points[4]
           /\ total_cnt' = total_cnt + 1
           /\ quad_cnt' = qc
           /\ results' = Append(results, Divide(qc, total_cnt + 1))
           /\ draw_classes' = Append(draw_classes, cls)
    /\ rng' = AdvanceBy(rng, 4)
    /\ UNCHANGED <<num, seed, pc, points, exception, sampler_calls, run, first_results>>
    /\ UNCHANGED geomVars

\* line 145 when the pool has fewer than four points: random.sample raises
\* ValueError ("Sample larger than population or is negative")
SampleRaises ==
    /\ pc = "loop"
    /\ LoopCondition(total_cnt, num)
    /\ Len(points) < 4
    /\ pc' = "raised"
    /\ exception' = "ValueError"
    /\ UNCHANGED <<num, seed, rng, points, point_a, point_b, point_c, point_d,
                   quad_cnt, total_cnt, results, sampler_calls, draw_classes,
                   run, first_results>>
    /\ UNCHANGED geomVars

\* the while condition is false; line 160
Return ==
    /\ pc = "loop"
    /\ ~LoopCondition(total_cnt, num)
    /\ pc' = "returned"
    /\ UNCHANGED <<num, seed, rng, points, point_a, point_b, point_c, point_d,
                   quad_cnt, total_cnt, results, exception, sampler_calls,
                   draw_classes, run, first_results>>
    /\ UNCHANGED geomVars

Next == SamplePoint \/ StartLoop \/ Iterate \/ SampleRaises \/ Return

Spec == Init /\ [][Next]_vars

\* The interpreter runs the single thread to completion.
FairSpec == Init /\ [][Next]_vars /\ WF_vars(Next)

\* ---- the program run twice: python main.py with the same arguments ----
\* A second process imports random afresh, so its generator is seeded from
\* fresh entropy; nothing at lines 200-208 passes args.seed to the generator.
RunAgain ==
    /\ pc = "returned"
    /\ run = 1
    /\ run' = 2
    /\ first_results' = results
    /\ rng' \in 0..(Modulus - 1)
    /\ pc' = "pool"
    /\ points' = << >>
    /\ point_a' = BaseA
    /\ point_b' = BaseB
    /\ point_c' = BaseC
    /\ point_d' = Unbound
    /\ quad_cnt' = 0
    /\ total_cnt' = 0
    /\ results' = << >>
    /\ sampler_calls' = << >>
    /\ draw_classes' = << >>
    /\ UNCHANGED <<num, seed, exception>>
    /\ UNCHANGED geomVars

NextTwoRuns == Next \/ RunAgain

SpecTwoRuns == Init /\ [][NextTwoRuns]_vars

\* ---- the pure geometry functions applied to points of an integer grid ----
Grid == (0..GridMax) \X (0..GridMax)

InitGeom ==
    /\ num = 0
    /\ seed = FALSE
    /\ rng = 0
    /\ pc = "off"
    /\ points = << >>
    /\ point_a = BaseA
    /\ point_b = BaseB
    /\ point_c = BaseC
    /\ point_d = Unbound
    /\ quad_cnt = 0
    /\ total_cnt = 0
    /\ results = << >>
    /\ exception = "none"
    /\ sampler_calls = << >>
    /\ draw_classes = << >>
    /\ run = 1
    /\ first_results = Unbound
    /\ g_pc = "input"
    /\ g_pts \in Grid \X Grid \X Grid \X Grid
    /\ g_turn = Unbound
    /\ g_cls = 0

Orient ==
    /\ g_pc = "input"
    /\ g_turn' = [abc |-> orientation(g_pts[1], g_pts[2], g_pts[3]),
                  bac |-> orientation(g_pts[2], g_pts[1], g_pts[3]),
                  acb |-> orientation(g_pts[1], g_pts[3], g_pts[2])]
    /\ g_pc' = "oriented"
    /\ UNCHANGED <<g_pts, g_cls>>
    /\ UNCHANGED runVars

Classify ==
    /\ g_pc = "oriented"
    /\ g_cls' = classify_points(g_pts[1], g_pts[2], g_pts[3], g_pts[4])
    /\ g_pc' = "classified"
    /\ UNCHANGED <<g_pts, g_turn>>
    /\ UNCHANGED runVars

NextGeom == Orient \/ Classify

SpecGeom == InitGeom /\ [][NextGeom]_vars

\* ======================= properties: the runner =======================
Zero == <<0, 1>>
One == <<1, 1>>
Finished == pc \in {"returned", "raised"}
BaseTriangle == <<BaseA, BaseB, BaseC>>

\* the number of the first i draws that were classified +1
QuadDraws(i) == Cardinality({k \in 1..i : draw_classes[k] = 1})

\* C1: for every N < 4 the run ends in a configuration error raised before
\* any pool point is sampled and before the loop starts; it never returns a
\* result sequence and never fails inside the loop.
C1_ConfigurationErrorFirst ==
    (num < 4 /\ Finished) =>
        /\ pc = "raised"
        /\ exception = "ConfigurationError"
        /\ sampler_calls = << >>

\* C2: for N >= 4, element i of the result sequence is (number of the first
\* i draws classified +1) / i; 0 <= quad_cnt <= total_cnt <= N; every element
\* is in [0,1] and element_i * i is an integer between 0 and i.
C2_RunningEstimate ==
    num >= 4 =>
        /\ 0 <= quad_cnt /\ quad_cnt <= total_cnt /\ total_cnt <= num
        /\ quad_cnt = QuadDraws(Len(draw_classes))
        /\ \A i \in 1..Len(results) :
              LET n == results[i][1]
                  d == results[i][2]
              IN  /\ d > 0
                  /\ n * i = QuadDraws(i) * d
                  /\ 0 <= n /\ n <= d
                  /\ (n * i) % d = 0
                  /\ (n * i) \div d \in 0..i

C2_Witness ==
    /\ num >= 4 /\ pc = "returned"
    /\ 0 < quad_cnt /\ quad_cnt < total_cnt
    /\ \E i \in 1..Len(results) : results[i] \notin {Zero, One}

\* C3: for N >= 4 the loop ends after exactly N iterations, the result
\* sequence has one element per iteration in every state, and the returned
\* sequence has length N.
C3_ExactlyNIterations ==
    /\ [](num >= 4 =>
            /\ Len(results) = total_cnt
            /\ Len(draw_classes) = total_cnt
            /\ total_cnt <= num
            /\ pc # "raised"
            /\ (pc = "returned" => (total_cnt = num /\ Len(results) = num)))
    /\ [][num >= 4 => Len(results') \in {Len(results), Len(results) + 1}]_vars
    /\ <>(num >= 4 => pc = "returned")

C3_Witness == num = MaxNum /\ pc = "returned" /\ Len(results) = MaxNum

\* C4 as stated: a run with N = 4 returns a sequence of length exactly 1
\* whose single value is 0 or 1.
C4_LengthOne ==
    (num = 4 /\ pc = "returned") =>
        (Len(results) = 1 /\ results[1] \in {Zero, One})

\* C4 amended: a run with N = 4 returns a sequence of length exactly 4; each
\* of its values is 0 or 1, never an intermediate value, and all four are
\* the same, 1 exactly when the four pool points classify as +1.
C4_BoundaryRun ==
    (num = 4 /\ pc = "returned") =>
        /\ Len(results) = 4
        /\ \A i \in 1..Len(results) :
              /\ results[i] \in {Zero, One}
              /\ results[i] = One <=>
                   classify_points(points[1], points[2], points[3], points[4]) = 1

C4_Witness ==
    /\ num = 4 /\ pc = "returned"
    /\ Len(results) = 4 /\ results[4] = One

\* C7: with a seed given on the command line, two runs with the same N
\* return the same sequence: the result is a function of (N, seed) only.
C7_SameSeedSameResults ==
    (seed /\ run = 2 /\ pc = "returned") => results = first_results

\* C8: quad_cnt never decreases; an iteration adds exactly 1 to it when its
\* draw classifies +1 and leaves it alone when the draw classifies -1 or 0,
\* and every iteration, degenerate or not, advances total_cnt by one.
C8_QuadCountSteps ==
    [][ /\ quad_cnt' >= quad_cnt
        /\ (pc = "loop" /\ pc' = "loop" /\ draw_classes' # draw_classes) =>
              LET cls == classify_points(point_a', point_b', point_c', point_d')
              IN  /\ total_cnt' = total_cnt + 1
                  /\ cls = 1 => quad_cnt' = quad_cnt + 1
                  /\ cls \in {-1, 0} => quad_cnt' = quad_cnt
                  /\ results'[total_cnt'][2] * quad_cnt' = results'[total_cnt'][1] * total_cnt' ]_vars

C8_Witness ==
    /\ pc = "returned"
    /\ {draw_classes[i] : i \in 1..Len(draw_classes)} = {-1, 0, 1}
    /\ \E i \in 1..(Len(draw_classes) - 1) :
          draw_classes[i] = 1 /\ draw_classes[i + 1] # 1

\* C9: the pool is complete (exactly N sampler calls, each on the base
\* triangle) before the first draw, and no iteration changes the pool's
\* content, order or size, although it rebinds point_a, point_b, point_c.
C9_PoolReadOnly ==
    /\ [](\A i \in 1..Len(sampler_calls) : sampler_calls[i] = BaseTriangle)
    /\ [](Len(points) = Len(sampler_calls))
    /\ [][ draw_classes' # draw_classes =>
              /\ Len(points) = num
              /\ Len(sampler_calls) = num
              /\ points' = points
              /\ sampler_calls' = sampler_calls ]_vars
    /\ [][ pc # "pool" => points' = points ]_vars

C9_Witness ==
    /\ pc = "returned" /\ num = MaxNum /\ Len(points) = MaxNum
    /\ <<point_a, point_b, point_c>> # BaseTriangle
    /\ total_cnt = MaxNum

\* ======================= properties: the geometry =======================
Abs(n) == IF n < 0 THEN 0 - n ELSE n

\* twice the signed area of the triangle p q r (shoelace formula)
Area2(p, q, r) == p[1] * (q[2] - r[2]) + q[1] * (r[2] - p[2]) + r[1] * (p[2] - q[2])

Collinear(p, q, r) == Area2(p, q, r) = 0

Between(v, a, b, c) ==
    /\ \E w \in {a, b, c} : w <= v
    /\ \E w \in {a, b, c} : v <= w

\* p lies in the closed convex hull of q, r, s (a triangle, a segment or a point)
InHull(p, q, r, s) ==
    IF ~Collinear(q, r, s)
    THEN Abs(Area2(p, q, r)) + Abs(Area2(p, r, s)) + Abs(Area2(p, q, s)) = Abs(Area2(q, r, s))
    ELSE /\ Collinear(p, q, r) /\ Collinear(p, q, s) /\ Collinear(p, r, s)
         /\ Between(p[1], q[1], r[1], s[1])
         /\ Between(p[2], q[2], r[2], s[2])

\* p lies strictly inside the triangle q r s
StrictlyInside(p, q, r, s) ==
    /\ ~Collinear(q, r, s)
    /\ ~Collinear(p, q, r) /\ ~Collinear(p, r, s) /\ ~Collinear(p, q, s)
    /\ InHull(p, q, r, s)

Others(P, i) == LET J == (1..4) \ {i}
                    a == CHOOSE x \in J : \A y \in J : x <= y
                    c == CHOOSE x \in J : \A y \in J : y <= x
                    b == CHOOSE x \in J : x # a /\ x # c
                IN  <<P[a], P[b], P[c]>>

HullIsQuadrilateral(P) ==
    \A i \in 1..4 : ~InHull(P[i], Others(P, i)[1], Others(P, i)[2], Others(P, i)[3])

OneStrictlyInside(P) ==
    Cardinality({i \in 1..4 :
        StrictlyInside(P[i], Others(P, i)[1], Others(P, i)[2], Others(P, i)[3])}) = 1

Degenerate(P) ==
    \/ Cardinality({P[1], P[2], P[3], P[4]}) < 4
    \/ \E i \in 1..4 : Collinear(Others(P, i)[1], Others(P, i)[2], Others(P, i)[3])

Permutations4 == {f \in [1..4 -> 1..4] : \A i, j \in 1..4 : f[i] = f[j] => i = j}

\* C5: classify_points returns +1 iff all four points are vertices of their
\* convex hull, -1 iff exactly one point lies strictly inside the triangle
\* of the other three, 0 iff three of them are collinear or they are not
\* all distinct; its value is in {-1, 0, +1}; it returns +1 on the unit
\* square, -1 on (0,0),(4,0),(4,4),(2,1) and 0 on (0,0),(1,0),(2,0),(1,1).
C5_HullShape ==
    /\ g_pc = "classified" =>
          /\ g_cls \in {-1, 0, 1}
          /\ g_cls = 1 <=> HullIsQuadrilateral(g_pts)
          /\ g_cls = -1 <=> OneStrictlyInside(g_pts)
          /\ g_cls = 0 <=> Degenerate(g_pts)
    /\ classify_points(<<0, 0>>, <<1, 0>>, <<1, 1>>, <<0, 1>>) = 1
    /\ classify_points(<<0, 0>>, <<4, 0>>, <<4, 4>>, <<2, 1>>) = -1
    /\ classify_points(<<0, 0>>, <<1, 0>>, <<2, 0>>, <<1, 1>>) = 0

C5_Witness ==
    /\ g_pc = "classified"
    /\ g_cls = -1
    /\ OneStrictlyInside(g_pts)

\* C6: orientation(A,B,C) = -orientation(B,A,C) = -orientation(A,C,B), and
\* orientation is 0 whenever two of its three arguments are the same point.
C6_Antisymmetry ==
    g_pc # "input" /\ g_pc # "off" =>
        /\ g_turn.abc = 0 - g_turn.bac
        /\ g_turn.abc = 0 - g_turn.acb
        /\ (g_pts[1] = g_pts[2] \/ g_pts[1] = g_pts[3] \/ g_pts[2] = g_pts[3])
              => g_turn.abc = 0

C6_Witness ==
    /\ g_pc = "oriented"
    /\ g_turn.abc = 1 /\ g_turn.bac = -1 /\ g_turn.acb = -1

\* C10: classify_points gives the same value for all 24 orderings of its
\* four arguments.
C10_OrderIndependent ==
    g_pc = "classified" =>
        \A f \in Permutations4 :
            classify_points(g_pts[f[1]], g_pts[f[2]], g_pts[f[3]], g_pts[f[4]]) = g_cls

C10_Witness ==
    /\ g_pc = "classified"
    /\ g_cls = 1
    /\ classify_points(g_pts[4], g_pts[2], g_pts[1], g_pts[3]) = 1

====
